---- MODULE Spec2Model ----
(***************************************************************************)
(* Model of the RSS feed collector (src/rss_feed_collector.py).            *)
(*                                                                         *)
(* One collector process at a time runs main(): it builds an               *)
(* RSSFeedCollector (which loads the state file), then run() collects      *)
(* every configured feed, writes the output files and saves the state      *)
(* file.  The process can be killed at any point; a later process starts   *)
(* from what is on disk.                                                   *)
(*                                                                         *)
(* Text is modelled as a tuple of tokens.  A datetime is a record          *)
(* [t, aware, off]: wall-clock reading t, whether a tzinfo is attached and *)
(* its UTC offset.  hashlib.md5 is taken as injective on its input, so a   *)
(* digest is modelled by the string that is digested.                      *)
(***************************************************************************)
EXTENDS Integers, Sequences, FiniteSets, TLC

VARIABLES
    feed_urls,          \* self.feed_urls: the configured list of URLs
    now,                \* the wall clock
    state_file,         \* STATE_FILE on disk
    output_dir,         \* OUTPUT_DIR on disk: file name -> text
    pc,                 \* position of the collector process
    last_fetch_times,   \* self.last_fetch_times
    feeds,              \* self.feeds
    seen_hashes,        \* self.seen_hashes
    i,                  \* collect_all_feeds: index of the url being processed
    tries,              \* fetch_feed: attempts made for the current url
    feed,               \* parse_feed: feed.entries of the current url
    j,                  \* parse_feed: index of the entry being processed
    entries,            \* parse_feed: the local list entries
    k,                  \* loop index of save_to_json, then of save_state
    state,              \* save_state: the local dict state
    file_at_start,      \* history: the state file as the process found it
    start_time,         \* history: clock reading when run() started
    outcome,            \* history: how parse_feed ended for each index of feed_urls
    returned,           \* history: what parse_feed returned for each index
    written,            \* history: what save_to_json wrote or failed to write, per url
    saved,              \* history: how save_state ended in this run
    parsed,             \* history: the feeds parse_feed went through, while collecting
    served,             \* history: what each url served in this run, where recorded
    earlier             \* history: the run of the process before this one, if any

vars == <<feed_urls, now, state_file, output_dir, pc, last_fetch_times,
          feeds, seen_hashes, i, tries, feed, j, entries, k, state,
          file_at_start, start_time, outcome, returned, written, saved, parsed,
          served, earlier>>

----------------------------------------------------------------------------
(* Bounds of the model *)

MaxSources == 2     \* longest configured url list
MaxFeedLen == 2     \* most entries a feed serves
MaxTicks == 1       \* times the clock advances on its own, besides the sleeps
TicksPerMinute == 2 \* clock readings that share one %Y_%m_%d_%H%M stamp

(* Program constants *)

max_tries == 3      \* backoff.on_exception(..., max_tries=3)
Epoch == 0          \* datetime(1970, 1, 1)

----------------------------------------------------------------------------
(* Generic helpers *)

Range(s) == {s[n] : n \in 1..Len(s)}

SeqsUpTo(S, n) == UNION {[1..m -> S] : m \in 0..n}

RECURSIVE Concat(_)
Concat(ss) == IF ss = <<>> THEN <<>> ELSE Head(ss) \o Concat(Tail(ss))

\* dict keys in insertion order: the first occurrence of each element
RECURSIVE Keys(_)
Keys(s) ==
    IF s = <<>> THEN <<>>
    ELSE LET init == Keys(SubSeq(s, 1, Len(s) - 1))
             last == s[Len(s)]
         IN  IF last \in Range(init) THEN init ELSE Append(init, last)

----------------------------------------------------------------------------
(* Datetimes and their text *)

MinTime == Epoch - 1                        \* datetime.min: nothing earlier exists
StartClock == Epoch + 2                     \* the clock when the process starts
\* up to the latest reading of the clock: a sleep per url in each of two runs,
\* the ticks, and the time between the runs
Times == MinTime..(StartClock + 2 * MaxSources + MaxTicks + 1)

Naive(t) == [t |-> t, aware |-> FALSE, off |-> 0]
Aware(t, off) == [t |-> t, aware |-> TRUE, off |-> off]

DateTimes == {Naive(t) : t \in Times} \cup {Aware(t, off) : t \in Times, off \in {0, 1}}

\* datetime.now(timezone.utc)
UtcNow(clock) == Aware(clock, 0)

\* dt.astimezone(pytz.UTC): "ok", or OverflowError when the UTC reading is out of range
AsTimezoneStatus(dt) == IF dt.t - dt.off < MinTime THEN "OverflowError" ELSE "ok"

AsTimezoneUTC(dt) == Aware(dt.t - dt.off, 0)

\* dt.replace(tzinfo=None): the reading is kept, the offset is dropped
ReplaceTzinfoNone(dt) == Naive(dt.t)

OffsetText(off) == IF off = 0 THEN "+00:00" ELSE "+01:00"

\* datetime.isoformat()
IsoFormat(dt) ==
    IF dt.aware THEN <<ToString(dt.t), OffsetText(dt.off)>> ELSE <<ToString(dt.t)>>

EpochText == <<ToString(Epoch), "Z">>      \* '1970-01-01T00:00:00Z'

\* dateutil.parser.parse: "ok", or the exception it raises
ParseDateStatus(s) ==
    IF s = EpochText \/ \E dt \in DateTimes : IsoFormat(dt) = s
    THEN "ok" ELSE "ValueError"

parse_date(s) ==
    IF s = EpochText THEN Aware(Epoch, 0)
    ELSE CHOOSE dt \in DateTimes : IsoFormat(dt) = s

----------------------------------------------------------------------------
(* The configuration and what the process finds outside *)

Url(netloc, path) == [netloc |-> netloc, path |-> path]

URLs == { Url(<<"a", ".", "b">>, "/1"),
          Url(<<"a", ".", "b">>, "/2"),
          Url(<<"c", ".", "b">>, "/1") }

\* urlparse(url).netloc
Netloc(url) == url.netloc

\* rss_sources.txt: the non-blank lines, in order (none, or a url listed twice,
\* are possible)
Configs == SeqsUpTo(URLs, MaxSources)

\* entry.get(field, default)
Get(e, field, default) == IF field \in DOMAIN e THEN e[field] ELSE default

\* Raw entries as feedparser yields them: any field may be missing.
RawEntries ==
    { \* a naive date
      [title |-> <<"a">>, link |-> <<"b">>, published |-> IsoFormat(Naive(1)),
       summary |-> <<>>],
      \* no date at all
      [title |-> <<"b">>, link |-> <<"a">>],
      \* a date that parses but has no UTC reading in range
      [title |-> <<"a">>, updated |-> IsoFormat(Aware(MinTime, 1))] }

\* what a url can serve
Feeds == SeqsUpTo(RawEntries, MaxFeedLen)

\* What the state file can hold when a process starts.
Missing == [kind |-> "missing"]
Unreadable == [kind |-> "unreadable"]
Malformed == [kind |-> "malformed"]
Json(map) == [kind |-> "json", map |-> map]

\* no file yet, a file cut short, or the file an earlier run saved for another list
InitialStateFiles ==
    { Missing, Malformed,
      Json([u \in {Url(<<"a", ".", "b">>, "/1")} |-> IsoFormat(Aware(1, 0))]) }

----------------------------------------------------------------------------
(* load_last_fetch_times *)

DefaultTimes(urls) == [u \in Range(urls) |-> Naive(Epoch)]

\* the try block raises: the file cannot be opened, json.load fails, or a
\* timestamp does not parse
LoadRaises(file, urls) ==
    \/ file.kind \in {"unreadable", "malformed"}
    \/ /\ file.kind = "json"
       /\ \E u \in Range(urls) : ParseDateStatus(Get(file.map, u, EpochText)) # "ok"

\* (mutant) the file is never used: every url keeps the default
load_defaults_only(file, urls) == DefaultTimes(urls)

\* (mutant) only the urls found in the file get an entry
load_only_present(file, urls) ==
    IF file.kind = "missing" \/ LoadRaises(file, urls)
    THEN DefaultTimes(urls)
    ELSE [u \in Range(urls) \cap DOMAIN file.map |->
            ReplaceTzinfoNone(parse_date(file.map[u]))]

load_last_fetch_times(file, urls) ==
    IF file.kind = "missing" \/ LoadRaises(file, urls)
    THEN DefaultTimes(urls)
    ELSE [u \in Range(urls) |->
            ReplaceTzinfoNone(parse_date(Get(file.map, u, EpochText)))]

----------------------------------------------------------------------------
(* parse_feed: one entry *)

\* (mutant) a missing or unparseable date is replaced by the epoch, not by now
NormalizeDateEpochFallback(raw, clock) ==
    LET pub_date_str == Get(raw, "published", Get(raw, "updated", <<>>))
    IN  IF pub_date_str = <<>> \/ ParseDateStatus(pub_date_str) # "ok"
        THEN [status |-> "ok", dt |-> Naive(Epoch)]
        ELSE LET pub_date == parse_date(pub_date_str)
             IN  IF ~pub_date.aware
                 THEN [status |-> "ok", dt |-> pub_date]
                 ELSE IF AsTimezoneStatus(pub_date) # "ok"
                 THEN [status |-> AsTimezoneStatus(pub_date), dt |-> pub_date]
                 ELSE [status |-> "ok",
                       dt |-> ReplaceTzinfoNone(AsTimezoneUTC(pub_date))]

\* lines 174-181: the published date of a raw entry, or the exception that
\* leaves the loop
NormalizeDate(raw, clock) ==
    LET pub_date_str == Get(raw, "published", Get(raw, "updated", <<>>))
        fallback == [status |-> "ok", dt |-> ReplaceTzinfoNone(UtcNow(clock))]
    IN  IF pub_date_str = <<>>
        THEN [status |-> "ok", dt |-> ReplaceTzinfoNone(AsTimezoneUTC(UtcNow(clock)))]
        ELSE IF ParseDateStatus(pub_date_str) # "ok"
        THEN fallback
        ELSE LET pub_date == parse_date(pub_date_str)
             IN  IF ~pub_date.aware
                 THEN [status |-> "ok", dt |-> pub_date]
                 ELSE IF AsTimezoneStatus(pub_date) # "ok"
                 THEN [status |-> AsTimezoneStatus(pub_date), dt |-> pub_date]
                 ELSE [status |-> "ok",
                       dt |-> ReplaceTzinfoNone(AsTimezoneUTC(pub_date))]

\* (mutant) the comparison is strict: an entry dated exactly at the watermark passes
AlreadyCollectedStrict(pub_date, last_fetch_time) == pub_date.t < last_fetch_time.t

\* line 183: pub_date <= last_fetch_time
AlreadyCollected(pub_date, last_fetch_time) == pub_date.t <= last_fetch_time.t

\* lines 186-193
ParsedEntry(raw, pub_date, url, clock) ==
    [title |-> Get(raw, "title", <<>>),
     link |-> Get(raw, "link", <<>>),
     published |-> IsoFormat(pub_date),
     summary |-> Get(raw, "summary", <<>>),
     source |-> Netloc(url),
     fetched_at |-> IsoFormat(UtcNow(clock))]

\* (mutant) the hash set is never consulted
IsDuplicateNever(entry_hash, hashes) == FALSE

\* line 196: entry_hash not in self.seen_hashes, negated
IsDuplicate(entry_hash, hashes) == entry_hash \in hashes

generate_entry_hash(entry) ==
    Concat(<<Get(entry, "title", <<>>), Get(entry, "link", <<>>),
             Get(entry, "published", <<>>), Get(entry, "summary", <<>>)>>)

----------------------------------------------------------------------------
(* save_to_json: the file of a url *)

\* netloc.replace('.', '_')
RECURSIVE ReplaceDots(_)
ReplaceDots(s) ==
    IF s = <<>> THEN <<>>
    ELSE <<IF Head(s) = "." THEN "_" ELSE Head(s)>> \o ReplaceDots(Tail(s))

\* strftime('%Y_%m_%d_%H%M'): the clock reading cut to the minute
MinuteStamp(clock) == clock \div TicksPerMinute

OutputFile(url, clock) ==
    [domain |-> ReplaceDots(Netloc(url)), timestamp |-> MinuteStamp(clock)]

\* lines 238-243: one object per entry, ",\n" between them, "\n" at the end
FileText(es) ==
    Concat([n \in 1..Len(es) |->
              <<[json |-> es[n]], [raw |-> IF n < Len(es) THEN ",\n" ELSE "\n"]>>])

\* the keys of parsed_entry in insertion order (lines 187-192)
EntryKeys == <<"title", "link", "published", "summary", "source", "fetched_at">>

\* json encodes a quote, a backslash and a newline inside a string
JsonEscape(tok) ==
    CASE tok = "\"" -> "\\\""
      [] tok = "\\" -> "\\\\"
      [] tok = "\n" -> "\\n"
      [] OTHER -> tok

\* (mutant) the text is put between quotes as it is
JsonStringRaw(text) == <<"\"">> \o text \o <<"\"">>

\* a string as json.dump writes it
JsonString(text) ==
    <<"\"">> \o [n \in 1..Len(text) |-> JsonEscape(text[n])] \o <<"\"">>

\* line 239: json.dump(entry, f, ensure_ascii=False), character by character:
\* {"key": "value", ...} on one line
JsonDump(e) ==
    <<"{">>
    \o Concat([n \in 1..Len(EntryKeys) |->
                  JsonString(<<EntryKeys[n]>>) \o <<":", " ">>
                  \o JsonString(e[EntryKeys[n]])
                  \o (IF n < Len(EntryKeys) THEN <<",", " ">> ELSE <<>>)])
    \o <<"}">>

\* the characters of a file, given what was written to it
FileChars(text) ==
    Concat([n \in 1..Len(text) |->
              IF "json" \in DOMAIN text[n] THEN JsonDump(text[n].json)
              ELSE IF text[n].raw = ",\n" THEN <<",", "\n">> ELSE <<"\n">>])

WriteTo(dir, name, text) ==
    [f \in DOMAIN dir \cup {name} |-> IF f = name THEN text ELSE dir[f]]

----------------------------------------------------------------------------
(* The initial state: a configuration and whatever is on disk *)

InitWith(files) ==
    /\ feed_urls \in Configs
    /\ now = StartClock
    /\ state_file \in files
    /\ output_dir = <<>>
    /\ pc = "start"
    /\ last_fetch_times = <<>>
    /\ feeds = <<>>
    /\ seen_hashes = {}
    /\ i = 0
    /\ tries = 0
    /\ feed = <<>>
    /\ j = 0
    /\ entries = <<>>
    /\ k = 0
    /\ state = <<>>
    /\ file_at_start = state_file
    /\ start_time = 0
    /\ outcome = <<>>
    /\ returned = <<>>
    /\ written = <<>>
    /\ saved = "no"
    /\ parsed = {}
    /\ served = <<>>
    /\ earlier = <<>>

Init == InitWith(InitialStateFiles)

world == <<feed_urls, served, earlier>>
disk == <<state_file, output_dir>>
parse_locals == <<feed, j, entries>>
history == <<file_at_start, start_time, outcome, returned, written, saved, parsed>>

----------------------------------------------------------------------------
(* main *)

\* RSSFeedCollector(feed_urls): __init__
Construct ==
    /\ pc = "start"
    /\ feeds' = [u \in Range(feed_urls) |-> <<>>]
    /\ seen_hashes' = {}
    /\ last_fetch_times' = load_last_fetch_times(state_file, feed_urls)
    /\ pc' = "run"
    /\ UNCHANGED <<world, now, disk, i, tries, parse_locals, k, state, history>>

\* run(), up to the call of collect_all_feeds
RunStart ==
    /\ pc = "run"
    /\ start_time' = now
    /\ i' = 1
    /\ tries' = 0
    /\ pc' = "collect"
    /\ UNCHANGED <<world, now, disk, last_fetch_times, feeds, seen_hashes,
                   parse_locals, k, state, file_at_start, outcome, returned, written,
                   saved, parsed>>

----------------------------------------------------------------------------
(* collect_all_feeds and parse_feed *)

\* parse_feed returns result to collect_all_feeds, which stores it and sleeps
Return(result, how) ==
    /\ feeds' = [feeds EXCEPT ![feed_urls[i]] = result]
    /\ outcome' = Append(outcome,
                          [how |-> how,
                           \* the same content was already gone through in this run
                           again |-> how = "ok" /\ feed \in parsed,
                           \* what the loop had kept, and the entries it never reached
                           kept |-> entries,
                           left |-> IF how = "error" THEN Len(feed) - j ELSE 0])
    /\ parsed' = IF how = "ok" THEN parsed \cup {feed} ELSE parsed
    /\ returned' = Append(returned, result)
    /\ now' = now + 1
    /\ i' = i + 1
    /\ tries' = 0
    /\ feed' = <<>>
    /\ j' = 0
    /\ entries' = <<>>
    /\ pc' = "collect"

\* (mutant) backoff without max_tries: a failing fetch is tried again for ever
FetchFailForever ==
    /\ pc = "collect"
    /\ i <= Len(feed_urls)
    /\ tries' = (tries + 1) % max_tries
    /\ UNCHANGED <<world, now, disk, pc, last_fetch_times, feeds, seen_hashes, i,
                   parse_locals, k, state, history>>

\* requests.get raises RequestException: backoff tries again, up to max_tries
\* calls; then parse_feed catches the exception and returns []
FetchFail ==
    /\ pc = "collect"
    /\ i <= Len(feed_urls)
    /\ IF tries + 1 < max_tries
       THEN /\ tries' = tries + 1
            /\ UNCHANGED <<now, feeds, i, parse_locals, pc, outcome, returned, parsed>>
       ELSE Return(<<>>, "failed")
    /\ UNCHANGED <<world, disk, last_fetch_times, seen_hashes, k, state, file_at_start,
                   start_time, written, saved>>

\* the content is fetched but feedparser reports a syntax error
FetchMalformed ==
    /\ pc = "collect"
    /\ i <= Len(feed_urls)
    /\ Return(<<>>, "malformed")
    /\ UNCHANGED <<world, disk, last_fetch_times, seen_hashes, k, state, file_at_start,
                   start_time, written, saved>>

\* the content is fetched and parsed: the loop over feed.entries starts
FetchOk ==
    /\ pc = "collect"
    /\ i <= Len(feed_urls)
    /\ feed' \in Feeds
    /\ entries' = <<>>
    /\ j' = 1
    /\ pc' = "entries"
    /\ UNCHANGED <<world, now, disk, last_fetch_times, feeds, seen_hashes, i, tries,
                   k, state, history>>

\* one iteration of the loop over feed.entries
ProcessEntry ==
    /\ pc = "entries"
    /\ j <= Len(feed)
    /\ LET url == feed_urls[i]
           last_fetch_time == Get(last_fetch_times, url, Naive(Epoch))
           norm == NormalizeDate(feed[j], now)
           parsed_entry == ParsedEntry(feed[j], norm.dt, url, now)
           entry_hash == generate_entry_hash(parsed_entry)
       IN  IF norm.status # "ok"
           THEN \* not a ValueError or TypeError: caught by the outer handler
                /\ Return(<<>>, "error")
                /\ UNCHANGED seen_hashes
           ELSE /\ IF AlreadyCollected(norm.dt, last_fetch_time)
                      \/ IsDuplicate(entry_hash, seen_hashes)
                   THEN UNCHANGED <<seen_hashes, entries>>
                   ELSE /\ seen_hashes' = seen_hashes \cup {entry_hash}
                        /\ entries' = Append(entries, parsed_entry)
                /\ j' = j + 1
                /\ UNCHANGED <<now, feeds, i, tries, feed, pc, outcome, returned, parsed>>
    /\ UNCHANGED <<world, disk, last_fetch_times, k, state, file_at_start,
                   start_time, written, saved>>

\* the loop is over: return entries
ReturnEntries ==
    /\ pc = "entries"
    /\ j > Len(feed)
    /\ Return(entries, "ok")
    /\ UNCHANGED <<world, disk, last_fetch_times, seen_hashes, k, state, file_at_start,
                   start_time, written, saved>>

\* (mutant) run() calls save_state before save_to_json
CollectDoneSavesFirst ==
    /\ pc = "collect"
    /\ i > Len(feed_urls)
    /\ k' = 1
    /\ state' = <<>>
    /\ pc' = "save_state"
    /\ parsed' = {}
    /\ UNCHANGED <<world, now, disk, last_fetch_times, feeds, seen_hashes, i, tries,
                   parse_locals, file_at_start, start_time, outcome, returned,
                   written, saved>>

\* every url is processed: run() goes on to save_to_json
CollectDone ==
    /\ pc = "collect"
    /\ i > Len(feed_urls)
    /\ k' = 1
    /\ pc' = "save_json"
    /\ parsed' = {}
    /\ UNCHANGED <<world, now, disk, last_fetch_times, feeds, seen_hashes, i, tries,
                   parse_locals, state, file_at_start, start_time, outcome, returned,
                   written, saved>>

----------------------------------------------------------------------------
(* save_to_json: one iteration per item of self.feeds *)

\* self.feeds.items(): the keys in insertion order
FeedKeys == Keys(feed_urls)

\* no entries for this url: continue
SkipEmpty ==
    /\ pc = "save_json"
    /\ k <= Len(FeedKeys)
    /\ feeds[FeedKeys[k]] = <<>>
    /\ k' = k + 1
    /\ UNCHANGED <<world, now, disk, pc, last_fetch_times, feeds, seen_hashes, i,
                   tries, parse_locals, state, history>>

\* the file is opened and every entry is written
WriteFile ==
    /\ pc = "save_json"
    /\ k <= Len(FeedKeys)
    /\ feeds[FeedKeys[k]] # <<>>
    /\ LET url == FeedKeys[k]
           output_file == OutputFile(url, now)
       IN  /\ output_dir' = WriteTo(output_dir, output_file, FileText(feeds[url]))
           /\ written' = WriteTo(written, url,
                                 [file |-> output_file, entries |-> feeds[url],
                                  ok |-> TRUE])
    /\ k' = k + 1
    /\ UNCHANGED <<world, now, state_file, pc, last_fetch_times, feeds, seen_hashes,
                   i, tries, parse_locals, state, file_at_start, start_time, outcome,
                   returned, saved, parsed>>

\* (mutant) no handler inside the loop: the exception leaves save_to_json and
\* run(), and save_state is never called
WriteFailsAborts ==
    /\ pc = "save_json"
    /\ k <= Len(FeedKeys)
    /\ feeds[FeedKeys[k]] # <<>>
    /\ written' = WriteTo(written, FeedKeys[k],
                          [file |-> OutputFile(FeedKeys[k], now),
                           entries |-> feeds[FeedKeys[k]], ok |-> FALSE])
    /\ pc' = "done"
    /\ UNCHANGED <<world, now, disk, last_fetch_times, feeds, seen_hashes, i, tries,
                   parse_locals, k, state, file_at_start, start_time, outcome,
                   returned, saved, parsed>>

\* open() or a write raises: the handler logs it and the loop goes on.  The
\* file is untouched (open failed) or holds the part written so far.
WriteFails ==
    /\ pc = "save_json"
    /\ k <= Len(FeedKeys)
    /\ feeds[FeedKeys[k]] # <<>>
    /\ LET url == FeedKeys[k]
           output_file == OutputFile(url, now)
           text == FileText(feeds[url])
       IN  /\ \/ UNCHANGED output_dir
              \/ \E n \in 0..(Len(text) - 1) :
                   output_dir' = WriteTo(output_dir, output_file, SubSeq(text, 1, n))
           /\ written' = WriteTo(written, url,
                                 [file |-> output_file, entries |-> feeds[url],
                                  ok |-> FALSE])
    /\ k' = k + 1
    /\ UNCHANGED <<world, now, state_file, pc, last_fetch_times, feeds, seen_hashes,
                   i, tries, parse_locals, state, file_at_start, start_time, outcome,
                   returned, saved, parsed>>

\* every item is handled: run() goes on to save_state
SaveJsonDone ==
    /\ pc = "save_json"
    /\ k > Len(FeedKeys)
    /\ k' = 1
    /\ state' = <<>>
    /\ pc' = "save_state"
    /\ UNCHANGED <<world, now, disk, last_fetch_times, feeds, seen_hashes, i, tries,
                   parse_locals, history>>

----------------------------------------------------------------------------
(* save_state *)

\* line 100: one item of the dict comprehension; now() is read for each url
Stamp(st, url, clock) ==
    [u \in DOMAIN st \cup {url} |->
        IF u = url THEN IsoFormat(UtcNow(clock)) ELSE st[u]]

\* (mutant) a url whose fetch failed keeps its old watermark
StampUrlFetchedOnly ==
    /\ pc = "save_state"
    /\ k <= Len(feed_urls)
    /\ state' = IF outcome[k].how = "failed" THEN state
                ELSE Stamp(state, feed_urls[k], now)
    /\ k' = k + 1
    /\ UNCHANGED <<world, now, disk, pc, last_fetch_times, feeds, seen_hashes, i,
                   tries, parse_locals, history>>

StampUrl ==
    /\ pc = "save_state"
    /\ k <= Len(feed_urls)
    /\ state' = Stamp(state, feed_urls[k], now)
    /\ k' = k + 1
    /\ UNCHANGED <<world, now, disk, pc, last_fetch_times, feeds, seen_hashes, i,
                   tries, parse_locals, history>>

\* line 101: open(self.state_file, 'w') truncates the file
OpenStateFile ==
    /\ pc = "save_state"
    /\ k > Len(feed_urls)
    /\ state_file' = Malformed
    /\ pc' = "save_dump"
    /\ UNCHANGED <<world, now, output_dir, last_fetch_times, feeds, seen_hashes, i,
                   tries, parse_locals, k, state, history>>

\* line 101 raises: the handler logs it, nothing is written
OpenStateFileFails ==
    /\ pc = "save_state"
    /\ k > Len(feed_urls)
    /\ saved' = "failed"
    /\ pc' = "done"
    /\ UNCHANGED <<world, now, disk, last_fetch_times, feeds, seen_hashes, i,
                   tries, parse_locals, k, state, file_at_start, start_time, outcome,
                   returned, written, parsed>>

\* line 102 and the end of the with block: the whole dict is on disk
DumpState ==
    /\ pc = "save_dump"
    /\ state_file' = Json(state)
    /\ saved' = "ok"
    /\ pc' = "done"
    /\ UNCHANGED <<world, now, output_dir, last_fetch_times, feeds, seen_hashes, i,
                   tries, parse_locals, k, state, file_at_start, start_time, outcome,
                   returned, written, parsed>>

\* line 102 raises half way: the handler logs it, the file keeps what was written
DumpStateFails ==
    /\ pc = "save_dump"
    /\ saved' = "failed"
    /\ pc' = "done"
    /\ UNCHANGED <<world, now, disk, last_fetch_times, feeds, seen_hashes, i,
                   tries, parse_locals, k, state, file_at_start, start_time, outcome,
                   returned, written, parsed>>

----------------------------------------------------------------------------
(* The environment *)

\* the next step of the process reads the clock
ReadsClock ==
    \/ pc = "run"
    \/ pc = "entries" /\ j <= Len(feed)
    \/ pc = "save_json" /\ k <= Len(FeedKeys)
    \/ pc = "save_state" /\ k <= Len(feed_urls)

\* time passes (only a step that reads the clock can tell when)
Tick ==
    /\ ReadsClock
    /\ now - StartClock - Len(outcome) < MaxTicks
    /\ now' = now + 1
    /\ UNCHANGED <<world, disk, pc, last_fetch_times, feeds, seen_hashes, i, tries,
                   parse_locals, k, state, history>>

\* the process is killed: nothing in memory survives
Crash ==
    /\ pc \notin {"done", "crashed"}
    /\ pc' = "crashed"
    /\ last_fetch_times' = <<>>
    /\ feeds' = <<>>
    /\ seen_hashes' = {}
    /\ i' = 0
    /\ tries' = 0
    /\ feed' = <<>>
    /\ j' = 0
    /\ entries' = <<>>
    /\ k' = 0
    /\ state' = <<>>
    /\ start_time' = 0
    /\ outcome' = <<>>
    /\ returned' = <<>>
    /\ written' = <<>>
    /\ parsed' = {}
    /\ UNCHANGED <<world, now, disk, file_at_start, saved>>

Next ==
    \/ Construct
    \/ RunStart
    \/ FetchFail
    \/ FetchMalformed
    \/ FetchOk
    \/ ProcessEntry
    \/ ReturnEntries
    \/ CollectDone
    \/ SkipEmpty
    \/ WriteFile
    \/ WriteFails
    \/ SaveJsonDone
    \/ StampUrl
    \/ OpenStateFile
    \/ OpenStateFileFails
    \/ DumpState
    \/ DumpStateFails
    \/ Tick
    \/ Crash

Spec == Init /\ [][Next]_vars

----------------------------------------------------------------------------
(* A process that is not killed: it goes on taking its next step.  No branch
   of the run depends on the clock, which here moves with the sleeps only. *)

NextProcess ==
    \/ Construct
    \/ RunStart
    \/ FetchFail
    \/ FetchMalformed
    \/ FetchOk
    \/ ProcessEntry
    \/ ReturnEntries
    \/ CollectDone
    \/ SkipEmpty
    \/ WriteFile
    \/ WriteFails
    \/ SaveJsonDone
    \/ StampUrl
    \/ OpenStateFile
    \/ OpenStateFileFails
    \/ DumpState
    \/ DumpStateFails

SpecLive == Init /\ [][NextProcess]_vars /\ WF_vars(NextProcess)

----------------------------------------------------------------------------
(* load_last_fetch_times on its own: every file it can meet, every list *)

Stamps == {IsoFormat(Aware(1, 0)), IsoFormat(Naive(1)), EpochText, <<"soon">>}

LoadStateFiles ==
    {Missing, Unreadable, Malformed}
        \cup {Json(map) : map \in UNION {[S -> Stamps] : S \in SUBSET URLs}}

InitLoad == InitWith(LoadStateFiles)

NextLoad == Construct

SpecLoad == InitLoad /\ [][NextLoad]_vars

----------------------------------------------------------------------------
(* parse_feed and save_to_json for one source that serves every kind of entry *)

RichEntries ==
    RawEntries \cup
    { \* the date field is there and empty
      [title |-> <<"c">>, published |-> <<>>, updated |-> IsoFormat(Naive(1))],
      \* a date dateutil cannot read
      [title |-> <<"c">>, link |-> <<"b">>, published |-> <<"soon">>],
      \* title and link that join to the same text as those of the first entry
      [title |-> <<"a", "b">>, published |-> IsoFormat(Naive(1))],
      \* a date with an offset
      [title |-> <<"d">>, updated |-> IsoFormat(Aware(StartClock, 1)),
       summary |-> <<"a">>],
      \* text with a comma, a line break and a quote in it
      [title |-> <<",", "\n">>, link |-> <<"\"", ",">>, summary |-> <<"\n", "\\">>,
       published |-> IsoFormat(Naive(1))] }

RichFeeds == SeqsUpTo(RichEntries, MaxFeedLen)

InitFeed == InitWith(InitialStateFiles) /\ Len(feed_urls) = 1

\* the content is fetched and parsed: the loop over feed.entries starts
FetchRich ==
    /\ pc = "collect"
    /\ i <= Len(feed_urls)
    /\ feed' \in RichFeeds
    /\ served' = Append(served, feed')
    /\ entries' = <<>>
    /\ j' = 1
    /\ pc' = "entries"
    /\ UNCHANGED <<feed_urls, earlier, now, disk, last_fetch_times, feeds, seen_hashes, i, tries,
                   k, state, history>>

NextFeed ==
    \/ Construct
    \/ RunStart
    \/ FetchRich
    \/ ProcessEntry
    \/ ReturnEntries
    \/ CollectDone
    \/ SkipEmpty
    \/ WriteFile
    \/ Tick

SpecFeed == InitFeed /\ [][NextFeed]_vars

----------------------------------------------------------------------------
(* Two runs in a row: the scheduler starts the collector again for the same
   source, after a run that ended *)

RunEntries ==
    { \* a naive date, long past
      [title |-> <<"a">>, link |-> <<"b">>, published |-> IsoFormat(Naive(1)),
       summary |-> <<>>],
      \* no date at all
      [title |-> <<"b">>, link |-> <<"a">>],
      \* published while the first run is under way
      [title |-> <<"c">>, published |-> IsoFormat(Naive(StartClock + 1))] }

RunFeeds == SeqsUpTo(RunEntries, MaxFeedLen)

InitRuns == InitWith(InitialStateFiles) /\ Len(feed_urls) = 1

\* the content is fetched and parsed: the loop over feed.entries starts
FetchRun ==
    /\ pc = "collect"
    /\ i <= Len(feed_urls)
    /\ feed' \in RunFeeds
    /\ served' = Append(served, [feed |-> feed', at |-> now])
    /\ entries' = <<>>
    /\ j' = 1
    /\ pc' = "entries"
    /\ UNCHANGED <<feed_urls, earlier, now, disk, last_fetch_times, feeds,
                   seen_hashes, i, tries, k, state, history>>

\* main() is started again, later: a new process, with what the last one left
\* on disk
Restart ==
    /\ pc = "done"
    /\ earlier = <<>>
    /\ now' = now + 1
    /\ earlier' = [served |-> served, returned |-> returned, written |-> written,
                   saved |-> saved]
    /\ served' = <<>>
    /\ pc' = "start"
    /\ last_fetch_times' = <<>>
    /\ feeds' = <<>>
    /\ seen_hashes' = {}
    /\ i' = 0
    /\ tries' = 0
    /\ k' = 0
    /\ state' = <<>>
    /\ file_at_start' = state_file
    /\ start_time' = 0
    /\ outcome' = <<>>
    /\ returned' = <<>>
    /\ written' = <<>>
    /\ saved' = "no"
    /\ UNCHANGED <<feed_urls, disk, parse_locals, parsed>>

NextRuns ==
    \/ Construct
    \/ RunStart
    \/ FetchRun
    \/ ProcessEntry
    \/ ReturnEntries
    \/ CollectDone
    \/ SkipEmpty
    \/ WriteFile
    \/ SaveJsonDone
    \/ StampUrl
    \/ OpenStateFile
    \/ DumpState
    \/ Tick
    \/ Restart

SpecRuns == InitRuns /\ [][NextRuns]_vars

----------------------------------------------------------------------------
(* Properties *)

\* the published instant of a kept entry, read back from its text
Published(e) == parse_date(e.published).t

AllNewer(es, url) ==
    \A n \in 1..Len(es) : Published(es[n]) > last_fetch_times[url].t

IsPrefix(s, t) == Len(s) <= Len(t) /\ s = SubSeq(t, 1, Len(s))

NoDuplicateUrls == Cardinality(Range(feed_urls)) = Len(feed_urls)

AfterSaveToJson == pc \in {"save_state", "save_dump", "done"}

FetchFailed(idx) == outcome[idx].how = "failed"

\* what a process started now would load
Reloaded == load_last_fetch_times(state_file, feed_urls)

\* C1: no entry whose normalized published instant is at or before the
\* watermark loaded for its source is kept by the loop, returned by parse_feed,
\* held in self.feeds or handed to the output writer.
C1_OlderEntriesExcluded ==
    /\ pc = "entries" => AllNewer(entries, feed_urls[i])
    /\ \A idx \in DOMAIN returned : AllNewer(returned[idx], feed_urls[idx])
    /\ \A u \in DOMAIN feeds : AllNewer(feeds[u], u)
    /\ \A u \in DOMAIN written : AllNewer(written[u].entries, u)

\* the loop is over for a url with a loaded watermark: an entry of the feed is
\* dated at or before it, and another entry was kept
C1_Witness ==
    /\ pc = "entries"
    /\ j > Len(feed)
    /\ last_fetch_times[feed_urls[i]].t > Epoch
    /\ \E n \in 1..Len(feed) :
          /\ "published" \in DOMAIN feed[n]
          /\ NormalizeDate(feed[n], now).dt.t <= last_fetch_times[feed_urls[i]].t
    /\ entries # <<>>

C4_StateFileNeverPartial ==
    \/ state_file = file_at_start
    \/ /\ state_file.kind = "json"
       /\ DOMAIN state_file.map = Range(feed_urls)

\* C5: when the construction of an entry raises, only that entry is skipped:
\* the loop reaches every later entry and parse_feed returns what was kept
\* before the failure.
C5_OnlyFailingEntrySkipped ==
    \A idx \in DOMAIN outcome :
        outcome[idx].how = "error" =>
            /\ outcome[idx].left = 0
            /\ IsPrefix(outcome[idx].kept, returned[idx])

\* C6: a feed whose content was already gone through in this run adds no entry.
C6_RepeatedFeedAddsNothing ==
    \A idx \in DOMAIN outcome : outcome[idx].again => returned[idx] = <<>>

\* everything kept so far in this run: self.feeds, then the loop's list
KeptNow ==
    LET keys == IF DOMAIN feeds = {} THEN <<>> ELSE FeedKeys
    IN  Concat([n \in 1..Len(keys) |-> feeds[keys[n]]]) \o entries

\* C7: at every point of the run the fingerprints of the kept entries, those
\* in self.feeds and those the loop holds, are pairwise distinct.
C7_DistinctFingerprints ==
    LET kept == KeptNow
    IN  \A p, q \in 1..Len(kept) :
            p # q => generate_entry_hash(kept[p]) # generate_entry_hash(kept[q])

\* two urls served the same content, the first kept entries, the second none
C7_Witness ==
    /\ pc = "collect"
    /\ Len(outcome) = 2
    /\ feed_urls[1] # feed_urls[2]
    /\ outcome[2].again
    /\ returned[1] # <<>>
    /\ returned[2] = <<>>

\* C8: after save_state every configured url carries the same instant.
C8_OneStampForAll ==
    (pc = "done" /\ saved = "ok") =>
        \A u, v \in DOMAIN state_file.map : state_file.map[u] = state_file.map[v]

\* C9: after save_to_json every url with kept entries whose write succeeded
\* has a file holding exactly its entries, a url without kept entries has
\* none, and no two urls were written to the same file.
C9_OneFilePerSource ==
    AfterSaveToJson =>
        /\ \A u \in DOMAIN written :
              written[u].ok => output_dir[written[u].file] = FileText(feeds[u])
        /\ \A u \in Range(feed_urls) : feeds[u] = <<>> => u \notin DOMAIN written
        /\ \A u, v \in DOMAIN written : u # v => written[u].file # written[v].file

\* C10: load_last_fetch_times always returns, with exactly one entry per
\* configured url: the epoch for every url when the file is missing,
\* unreadable or malformed, and the epoch for a url the file does not name.
C10_LoadNeverFails ==
    /\ pc = "start" => ENABLED Construct
    /\ pc = "run" =>
          /\ DOMAIN last_fetch_times = Range(feed_urls)
          /\ file_at_start.kind \in {"missing", "unreadable", "malformed"} =>
                \A u \in Range(feed_urls) : last_fetch_times[u] = Naive(Epoch)
          /\ file_at_start.kind = "json" =>
                \A u \in Range(feed_urls) :
                    u \notin DOMAIN file_at_start.map =>
                        last_fetch_times[u] = Naive(Epoch)

\* a readable file that names one configured url and not another
C10_Witness ==
    /\ pc = "run"
    /\ file_at_start.kind = "json"
    /\ \E u, v \in Range(feed_urls) :
          /\ u \notin DOMAIN file_at_start.map
          /\ last_fetch_times[u] = Naive(Epoch)
          /\ v \in DOMAIN file_at_start.map
          /\ last_fetch_times[v].t > Epoch

\* the date field of a raw entry is missing, empty or unparseable
BadDate(raw) ==
    LET pub_date_str == Get(raw, "published", Get(raw, "updated", <<>>))
    IN  pub_date_str = <<>> \/ ParseDateStatus(pub_date_str) # "ok"

\* the UTC reading of a date that parses
OwnDate(raw) ==
    LET d == parse_date(Get(raw, "published", Get(raw, "updated", <<>>)))
    IN  IF d.aware THEN Naive(d.t - d.off) ELSE d

\* the step taken is an iteration of the loop over feed.entries
LoopStep == pc = "entries" /\ j <= Len(feed) /\ pc' # "crashed" /\ ~(pc' = pc /\ j' = j)

\* entries is unchanged, or one entry was appended to it
KeptOrNot(e) == entries' = entries \/ entries' = Append(entries, e)

C12_WriteFailureIsolated ==
    /\ pc = "save_json" =>
          \A n \in 1..(k - 1) :
              feeds[FeedKeys[n]] # <<>> => FeedKeys[n] \in DOMAIN written
    /\ AfterSaveToJson =>
          \A u \in Range(feed_urls) : feeds[u] # <<>> => u \in DOMAIN written
    /\ pc = "done" => saved \in {"ok", "failed"}

\* the write of the first url failed, the second url's file was written after
\* it and the state was saved
C12_Witness ==
    /\ pc = "done"
    /\ saved = "ok"
    /\ Len(FeedKeys) = 2
    /\ DOMAIN written = Range(feed_urls)
    /\ ~written[FeedKeys[1]].ok
    /\ written[FeedKeys[2]].ok
    /\ written[FeedKeys[2]].file \in DOMAIN output_dir
    /\ output_dir[written[FeedKeys[2]].file] = FileText(feeds[FeedKeys[2]])

\* C13: while the process lives, self.last_fetch_times is what was loaded from
\* the state file found at the start; the state file is not touched before
\* save_state; it changes only in save_state (once opened it is not opened
\* again), and only when every url has been processed and every url with
\* entries has had its write attempted.
C13_StateWrittenOnceAtEnd ==
    /\ [](pc \notin {"start", "crashed"} =>
             last_fetch_times = load_last_fetch_times(file_at_start, feed_urls))
    /\ [](pc \in {"start", "run", "collect", "entries", "save_json", "save_state"} =>
             state_file = file_at_start)
    /\ [][state_file' # state_file =>
             /\ pc \in {"save_state", "save_dump"}
             /\ Len(outcome) = Len(feed_urls)
             /\ \A u \in Range(feed_urls) : feeds[u] # <<>> => u \in DOMAIN written]_vars
    /\ [][(pc \in {"save_dump", "done", "crashed"}) => (pc' # "save_state")]_vars

\* a finished run that found a saved map, held its watermark to the end, wrote
\* a file and replaced the map
C13_Witness ==
    /\ pc = "done"
    /\ saved = "ok"
    /\ file_at_start.kind = "json"
    /\ state_file # file_at_start
    /\ \E u \in Range(feed_urls) :
          /\ last_fetch_times[u].t > Epoch
          /\ u \in DOMAIN written
          /\ written[u].ok

\* a reader of the output files: the text without its final line break
StripFinal(chars) ==
    IF chars # <<>> /\ chars[Len(chars)] = "\n"
    THEN SubSeq(chars, 1, Len(chars) - 1) ELSE chars

\* ... split on ",\n"
SplitOnCommaNewline(chars) ==
    LET cuts == {p \in 1..(Len(chars) - 1) : chars[p] = "," /\ chars[p + 1] = "\n"}
        Cut(n) == CHOOSE p \in cuts : Cardinality({q \in cuts : q < p}) = n - 1
        From(n) == IF n = 1 THEN 1 ELSE Cut(n - 1) + 2
        To(n) == IF n = Cardinality(cuts) + 1 THEN Len(chars) ELSE Cut(n) - 1
    IN  [n \in 1..(Cardinality(cuts) + 1) |-> SubSeq(chars, From(n), To(n))]

At(chars, p) == IF p \in 1..Len(chars) THEN chars[p] ELSE "end"

JsonUnescape(tok) ==
    CASE tok = "\\\"" -> "\""
      [] tok = "\\\\" -> "\\"
      [] tok = "\\n" -> "\n"
      [] OTHER -> tok

\* ... a string whose text starts at p: the text and the position after the
\* closing quote
ReadString(chars, p) ==
    LET quotes == {q \in p..Len(chars) : chars[q] = "\""}
        close == CHOOSE q \in quotes : \A r \in quotes : q <= r
    IN  IF quotes = {} THEN [ok |-> FALSE, text |-> <<>>, next |-> p]
        ELSE [ok |-> \A q \in p..(close - 1) : chars[q] # "\n",
              text |-> [n \in 1..(close - p) |-> JsonUnescape(chars[p + n - 1])],
              next |-> close + 1]

\* ... the members of an object from p on, as <<key, value>> pairs
RECURSIVE ReadMembers(_, _, _)
ReadMembers(chars, p, pairs) ==
    LET failed == [ok |-> FALSE, pairs |-> pairs]
    IN  IF At(chars, p) # "\"" THEN failed
        ELSE LET key == ReadString(chars, p + 1)
             IN  IF ~key.ok \/ At(chars, key.next) # ":"
                    \/ At(chars, key.next + 1) # " " \/ At(chars, key.next + 2) # "\""
                 THEN failed
                 ELSE LET val == ReadString(chars, key.next + 3)
                          all == Append(pairs, <<key.text, val.text>>)
                      IN  IF ~val.ok THEN failed
                          ELSE IF At(chars, val.next) = "}" /\ val.next = Len(chars)
                          THEN [ok |-> TRUE, pairs |-> all]
                          ELSE IF At(chars, val.next) = ","
                                  /\ At(chars, val.next + 1) = " "
                          THEN ReadMembers(chars, val.next + 2, all)
                          ELSE failed

\* ... one segment read as a standalone object
JsonLoads(chars) ==
    LET members == IF At(chars, 1) = "{" THEN ReadMembers(chars, 2, <<>>)
                   ELSE [ok |-> FALSE, pairs |-> <<>>]
        pairs == members.pairs
    IN  IF ~members.ok
           \/ [n \in 1..Len(pairs) |-> pairs[n][1]]
                  # [n \in 1..Len(EntryKeys) |-> <<EntryKeys[n]>>]
        THEN [error |-> "not an entry"]
        ELSE [title |-> pairs[1][2], link |-> pairs[2][2],
              published |-> pairs[3][2], summary |-> pairs[4][2],
              source |-> pairs[5][2], fetched_at |-> pairs[6][2]]

\* a kept entry carries the title, link and summary of a raw entry
CameFrom(e, raw) ==
    /\ e.title = Get(raw, "title", <<>>)
    /\ e.link = Get(raw, "link", <<>>)
    /\ e.summary = Get(raw, "summary", <<>>)

\* the kept entries come from entries of the feed, in the order of the feed
RECURSIVE InFeedOrder(_, _)
InFeedOrder(kept, raws) ==
    IF kept = <<>> THEN TRUE
    ELSE IF raws = <<>> THEN FALSE
    ELSE IF CameFrom(Head(kept), Head(raws))
    THEN InFeedOrder(Tail(kept), Tail(raws))
    ELSE InFeedOrder(kept, Tail(raws))

SecondRun == earlier # <<>> /\ earlier.saved = "ok"

\* C15: the instant saved for a url is not later than the instant the url was
\* fetched in that run; and in the next run an entry that was not yet in the
\* feed at that fetch and is dated after it is kept.
C15_WatermarkNotPastFetch ==
    /\ (pc = "done" /\ saved = "ok") =>
          \A idx \in DOMAIN served :
              parse_date(state_file.map[feed_urls[idx]]).t <= served[idx].at
    /\ SecondRun =>
          \A idx \in DOMAIN returned :
              \A n \in 1..Len(served[idx].feed) :
                  LET raw == served[idx].feed[n]
                  IN  (/\ ~BadDate(raw)
                       /\ raw \notin Range(earlier.served[idx].feed)
                       /\ OwnDate(raw).t > earlier.served[idx].at)
                      => \E m \in 1..Len(returned[idx]) :
                             CameFrom(returned[idx][m], raw)

\* C16: when the second run is served what the first run was served, it keeps
\* no entry and writes no file.
C16_SecondRunAddsNothing ==
    (/\ SecondRun
     /\ Len(returned) = Len(feed_urls)
     /\ \A idx \in DOMAIN served : served[idx].feed = earlier.served[idx].feed)
    => /\ \A idx \in DOMAIN returned : returned[idx] = <<>>
       /\ written = <<>>

AfterCollect == pc \in {"save_json", "save_state", "save_dump", "done"}

\* C17: when collect_all_feeds is over, seen_hashes holds exactly the
\* fingerprints of the entries in self.feeds, and everything parse_feed
\* returned for a position of the url list is still held for that url.
C17_SeenHashesMatchFeeds ==
    AfterCollect =>
        /\ seen_hashes =
              UNION {{generate_entry_hash(feeds[u][n]) : n \in 1..Len(feeds[u])} :
                     u \in DOMAIN feeds}
        /\ \A idx \in DOMAIN returned :
              Range(returned[idx]) \subseteq Range(feeds[feed_urls[idx]])

\* C18: after a run that saved the state, every url that had kept entries has
\* had them written to its output file.
C18_StampedMeansWritten ==
    (pc = "done" /\ saved = "ok") =>
        \A u \in Range(feed_urls) :
            feeds[u] # <<>> => u \in DOMAIN written /\ written[u].ok

\* the four fields the fingerprint is taken from
KeyFields(e) == <<e.title, e.link, e.published, e.summary>>

\* C19: only true duplicates are suppressed.  While the loop runs, every entry
\* gone through whose date parses and is after the watermark has a kept entry
\* with the same title, link, published text and summary (itself, or an
\* earlier one that agrees with it on all four); and no two kept entries
\* agree on all four.
C19_OnlyTrueDuplicatesSuppressed ==
    pc = "entries" =>
        /\ \A n \in 1..(j - 1) :
              LET raw == feed[n]
                  e == ParsedEntry(raw, OwnDate(raw), feed_urls[i], now)
              IN  (~BadDate(raw) /\ OwnDate(raw).t > last_fetch_times[feed_urls[i]].t)
                  => \E m \in 1..Len(KeptNow) : KeyFields(KeptNow[m]) = KeyFields(e)
        /\ \A m, n \in 1..Len(KeptNow) :
              m # n => KeyFields(KeptNow[m]) # KeyFields(KeptNow[n])

\* C20: a process that is not killed ends its run.  Fewer than max_tries
\* fetches of the current url have failed; the urls are gone through one
\* position at a time, each with one outcome; when the loop is left every
\* position has its outcome; and the process reaches the end of run(), past
\* save_to_json and save_state.
C20_RunTerminates ==
    /\ [](/\ tries < max_tries
          /\ pc \in {"collect", "entries"} =>
                i = Len(outcome) + 1 /\ i <= Len(feed_urls) + 1
          /\ pc = "entries" => i <= Len(feed_urls)
          /\ AfterCollect => Len(outcome) = Len(feed_urls) /\ i = Len(feed_urls) + 1
          /\ pc = "done" => saved \in {"ok", "failed"})
    /\ <>(pc = "done")

\* a run that ended after one url failed its three fetches and another was
\* collected and written
C20_Witness ==
    /\ pc = "done"
    /\ Len(outcome) = 2
    /\ FetchFailed(1)
    /\ outcome[2].how = "ok"
    /\ returned[2] # <<>>
    /\ written # <<>>

====
